---------------------------- MODULE Spec2Model ----------------------------
(***************************************************************************)
(* Model of abcd_microstructure_pipelines/masks.py: case discovery         *)
(* (find_all_cases), the b0-mean task (gen_b0_mean) and the two-phase      *)
(* planner and runner (gen_masks).                                         *)
(*                                                                         *)
(* A path is a record [parent, name]: parent is the sequence of directory  *)
(* components, name the file name as a sequence of characters, so that the *)
(* pathlib operations (with_suffix, with_name, removesuffix, relative_to,  *)
(* joinpath, str) are computed character by character as pathlib does.     *)
(* The output tree fs maps str(path) to the content of the file.           *)
(***************************************************************************)
EXTENDS Integers, Sequences, FiniteSets, TLC

\* ------------------------------------------------------------------ bounds
\* largest number of files in the input tree
MaxFiles == 5
\* number of gen_masks invocations followed from the empty output tree
MaxRuns == 2
\* worker processes of multiprocessing.Pool() (os.cpu_count() of the host)
Processes == 2

\* ------------------------------------------------------- character strings
NII_GZ == <<".", "n", "i", "i", ".", "g", "z">>
BVAL == <<".", "b", "v", "a", "l">>
BVEC == <<".", "b", "v", "e", "c">>
B0_NII_GZ == <<".", "b", "0">> \o NII_GZ
MASK_NII_GZ == <<"_", "m", "a", "s", "k">> \o NII_GZ
DWI == <<"_", "d", "w", "i">>
DWI_NII_GZ == DWI \o NII_GZ

\* the roots given on the command line (--inputs, --outputs)
inputs == <<"i">>
outputs == <<"o">>

\* ------------------------------------------------------ string operations
EndsWith(s, suf) ==
    /\ Len(s) >= Len(suf)
    /\ SubSeq(s, Len(s) - Len(suf) + 1, Len(s)) = suf

IsPrefix(pre, s) ==
    /\ Len(s) >= Len(pre)
    /\ SubSeq(s, 1, Len(pre)) = pre

\* str.removesuffix
RemoveSuffix(s, suf) ==
    IF Len(suf) > 0 /\ EndsWith(s, suf) THEN SubSeq(s, 1, Len(s) - Len(suf)) ELSE s

\* str.rfind(ch), 1-based, 0 when absent
RFind(s, ch) ==
    LET hits == {k \in 1..Len(s) : s[k] = ch}
    IN  IF hits = {} THEN 0 ELSE CHOOSE k \in hits : \A h \in hits : h <= k

\* ---------------------------------------------------- pathlib operations
\* PurePath.suffix: the last dot of the name and what follows it, unless that
\* dot is the first or the last character of the name
Suffix(p) ==
    LET k == RFind(p.name, ".")
    IN  IF 1 < k /\ k < Len(p.name) THEN SubSeq(p.name, k, Len(p.name)) ELSE <<>>

\* PurePath.with_suffix
WithSuffix(p, suf) ==
    [p EXCEPT !.name = SubSeq(p.name, 1, Len(p.name) - Len(Suffix(p))) \o suf]

\* PurePath.with_name
WithName(p, n) == [p EXCEPT !.name = n]

\* PurePath.relative_to(root): the path below root
RelativeTo(p, root) ==
    [p EXCEPT !.parent = SubSeq(p.parent, Len(root) + 1, Len(p.parent))]

\* root.joinpath(rel)
JoinPath(root, rel) == [rel EXCEPT !.parent = root \o rel.parent]

RECURSIVE JoinParts(_)
JoinParts(parts) ==
    IF parts = <<>> THEN <<>> ELSE <<Head(parts), "/">> \o JoinParts(Tail(parts))

\* str(path)
Str(p) == JoinParts(p.parent) \o p.name

\* ------------------------------------------------------------ input trees
File(parent, stem, ext) == [parent |-> parent, name |-> stem \o ext]

\* the files an input tree may hold: a case a_dwi at the root with its
\* gradient files, two cases a.a_dwi and a.b_dwi in the directory s, and a
\* series a that is not a dwi case, with its gradient files
InputUniverse ==
    { File(inputs, <<"a">>, DWI_NII_GZ),
      File(inputs, <<"a">>, DWI \o BVAL),
      File(inputs, <<"a">>, DWI \o BVEC),
      File(inputs \o <<"s">>, <<"a", ".", "a">>, DWI_NII_GZ),
      File(inputs \o <<"s">>, <<"a", ".", "b">>, DWI_NII_GZ),
      File(inputs \o <<"s">>, <<"a">>, NII_GZ),
      File(inputs \o <<"s">>, <<"a">>, BVAL),
      File(inputs \o <<"s">>, <<"a">>, BVEC) }

InputTrees == {t \in SUBSET InputUniverse : Cardinality(t) <= MaxFiles}

\* ---------------------------------------------------------- find_all_cases
\* root.rglob("*_dwi.nii.gz"): the files at any depth under root whose name
\* ends in _dwi.nii.gz
RGlob(tree, root) ==
    {f \in tree : IsPrefix(root, f.parent) /\ EndsWith(f.name, DWI_NII_GZ)}

\* dwi.with_name(dwi.name.removesuffix(".nii.gz"))
CaseBase(dwi) == WithName(dwi, RemoveSuffix(dwi.name, NII_GZ))

FindAllCases(tree, root) == {CaseBase(dwi) : dwi \in RGlob(tree, root)}

\* the orders in which the traversal may yield the cases
Orders(S) ==
    {o \in [1..Cardinality(S) -> S] : \A x, y \in 1..Cardinality(S) : o[x] = o[y] => x = y}

\* ------------------------------------------------ gen_masks: planned paths
BaseOut(base) == JoinPath(outputs, RelativeTo(base, inputs))
DwiOf(base) == WithSuffix(base, NII_GZ)
BvalOf(base) == WithSuffix(base, BVAL)
BvecOf(base) == WithSuffix(base, BVEC)
B0Out(base) == WithSuffix(BaseOut(base), B0_NII_GZ)
MaskOut(base) == WithSuffix(BaseOut(base), NII_GZ)
MaskOutReal(base) == WithName(BaseOut(base), BaseOut(base).name \o MASK_NII_GZ)

\* Path.exists() on the output tree
Exists(tree, p) == Str(p) \in DOMAIN tree

\* the argument tuple of gen_b0_mean
B0Task(base) ==
    [dwi |-> DwiOf(base), bval |-> BvalOf(base), bvec |-> BvecOf(base), b0_out |-> B0Out(base)]

\* variants of the two planning tests, as slips of the code would make them
NeedB0WrongPath(tree, ow, base) == ow \/ ~Exists(tree, MaskOut(base))
NeedB0And(tree, ow, base) == ow /\ ~Exists(tree, B0Out(base))
NeedMaskNoOverwrite(tree, ow, base) == ~Exists(tree, MaskOutReal(base))

NeedB0(tree, ow, base) == ow \/ ~Exists(tree, B0Out(base))
NeedMask(tree, ow, base) == ow \/ ~Exists(tree, MaskOutReal(base))

\* the loop over find_all_cases: the three lists it builds, in order
RECURSIVE PlanB0(_, _, _)
PlanB0(tree, ow, order) ==
    IF order = <<>> THEN <<>>
    ELSE (IF NeedB0(tree, ow, Head(order)) THEN <<B0Task(Head(order))>> ELSE <<>>)
         \o PlanB0(tree, ow, Tail(order))

RECURSIVE PlanHdBetInput(_, _, _)
PlanHdBetInput(tree, ow, order) ==
    IF order = <<>> THEN <<>>
    ELSE (IF NeedMask(tree, ow, Head(order)) THEN <<Str(B0Out(Head(order)))>> ELSE <<>>)
         \o PlanHdBetInput(tree, ow, Tail(order))

RECURSIVE PlanHdBetOutput(_, _, _)
PlanHdBetOutput(tree, ow, order) ==
    IF order = <<>> THEN <<>>
    ELSE (IF NeedMask(tree, ow, Head(order)) THEN <<Str(MaskOut(Head(order)))>> ELSE <<>>)
         \o PlanHdBetOutput(tree, ow, Tail(order))

\* ------------------------------------------------------------------ state
VARIABLES
    infs,           \* the input tree: the set of files under --inputs
    fs,             \* the output tree: str(path) -> content of the file
    pc,             \* "idle", "b0" (phase 1), "hd_bet" (phase 2), "done", "aborted"
    overwrite,      \* --overwrite of the current run
    parallel,       \* --parallel of the current run
    order,          \* the case bases in the order find_all_cases yielded them
    b0_tasks,       \* list of gen_b0_mean argument tuples
    hd_bet_input,   \* list of str
    hd_bet_output,  \* list of str
    status,         \* per b0 task: "pending", "running", "done", "failed"
    execs,          \* per b0 task: how many times gen_b0_mean was entered
    cur,            \* the chunks of tasks held by a process: taken and not ended
    nextChunk,      \* the first chunk of the task queue no process has taken
    hd_calls,       \* number of run_hd_bet invocations of the current run
    hd_args,        \* the arguments run_hd_bet was invoked with
    hd_pos,         \* number of (input, output) pairs run_hd_bet has processed
    faulty,         \* the output files whose write fails in the current run
    fs0,            \* the output tree when the current run started
    runs,           \* number of runs started
    prev,           \* how the previous run ended, and what happened since
    gap             \* whether the output tree was changed since the last run ended

vars == <<infs, fs, pc, overwrite, parallel, order, b0_tasks, hd_bet_input,
          hd_bet_output, status, execs, cur, nextChunk, hd_calls, hd_args, hd_pos,
          faulty, fs0, runs, prev, gap>>

\* ------------------------------------------------------------ file content
B0Content(task) == [kind |-> "b0", src |-> Str(task.dwi)]
MaskContent(in) == [kind |-> "mask", src |-> in]
Partial == [kind |-> "partial", src |-> <<>>]

Write(tree, path, content) ==
    [x \in DOMAIN tree \cup {path} |-> IF x = path THEN content ELSE tree[x]]

Remove(tree, path) == [x \in DOMAIN tree \ {path} |-> tree[x]]

EmptyTree == [x \in {} |-> Partial]

\* ---------------------------------------------------------------- gen_b0_mean
\* load_nifti and read_bvals_bvecs raise unless the three inputs are there
CanLoad(tree, task) == task.dwi \in tree /\ task.bval \in tree /\ task.bvec \in tree

\* save_nifti: the output tree after the write, whole or cut short by a failure
Saved(tree, flt, task) ==
    IF Str(task.b0_out) \in flt
    THEN Write(tree, Str(task.b0_out), Partial)
    ELSE Write(tree, Str(task.b0_out), B0Content(task))

\* --------------------------------------------------------------- run_hd_bet
\* the file the model writes for a nominal output: out[:-7] + "_mask.nii.gz"
HdBetMaskName(out) == SubSeq(out, 1, Len(out) - 7) \o MASK_NII_GZ

\* variant: the overwrite flag is not passed on, leaving the callee's default
HdBetArgsNoFlag(ins, outs, ow) == [input |-> ins, output |-> outs, overwrite |-> TRUE]

HdBetArgs(ins, outs, ow) == [input |-> ins, output |-> outs, overwrite |-> ow]

\* ------------------------------------------- the run as one sequential pass
\* itertools.starmap(gen_b0_mean, b0_tasks) (lines 92-93): the tasks in list
\* order, stopping at the first that raises
RECURSIVE SequentialB0(_, _, _, _)
SequentialB0(tree, in, flt, tasks) ==
    IF tasks = <<>> THEN [ok |-> TRUE, tree |-> tree]
    ELSE IF ~CanLoad(in, Head(tasks)) THEN [ok |-> FALSE, tree |-> tree]
    ELSE IF Str(Head(tasks).b0_out) \in flt
         THEN [ok |-> FALSE, tree |-> Saved(tree, flt, Head(tasks))]
    ELSE SequentialB0(Saved(tree, flt, Head(tasks)), in, flt, Tail(tasks))

\* the model over its pairs, in list order, stopping at the first failure
RECURSIVE HdBetOutcome(_, _, _, _)
HdBetOutcome(tree, flt, ins, outs) ==
    IF ins = <<>> THEN tree
    ELSE IF ~(Head(ins) \in DOMAIN tree /\ tree[Head(ins)].kind = "b0") THEN tree
    ELSE IF HdBetMaskName(Head(outs)) \in flt
         THEN Write(tree, HdBetMaskName(Head(outs)), Partial)
    ELSE HdBetOutcome(Write(tree, HdBetMaskName(Head(outs)), MaskContent(Head(ins))),
                      flt, Tail(ins), Tail(outs))

\* the output tree a run with --parallel unset leaves behind
SequentialOutcome(tree, in, flt, tasks, ins, outs) ==
    LET r == SequentialB0(tree, in, flt, tasks)
    IN  IF r.ok THEN HdBetOutcome(r.tree, flt, ins, outs) ELSE r.tree

\* ------------------------------------------------------------ the two runners
\* itertools.starmap runs in the calling process, Pool.starmap in the workers
Executors(par) == IF par THEN Processes ELSE 1

\* Pool.starmap: chunksize, extra = divmod(len(tasks), len(pool) * 4), rounded
\* up; the sequential loop is one chunk holding every task
ChunkSize(par, n) ==
    IF par
    THEN (n \div (Processes * 4)) + (IF n % (Processes * 4) # 0 THEN 1 ELSE 0)
    ELSE n

NumChunks(par, n) ==
    IF n = 0 THEN 0
    ELSE LET cs == ChunkSize(par, n)
         IN  (n \div cs) + (IF n % cs # 0 THEN 1 ELSE 0)

ChunkTasks(par, n, c) ==
    LET cs == ChunkSize(par, n)
    IN  {k \in 1..n : (c - 1) * cs < k /\ k <= c * cs}

\* variant: the error of a task is swallowed and the chunk goes on
ChunkFinishedSwallow(st, par, c) ==
    \A k \in ChunkTasks(par, Len(st), c) : st[k] \in {"done", "failed"}

\* a chunk ends when a task of it raised or when all its tasks returned
ChunkFinished(st, par, c) ==
    LET ts == ChunkTasks(par, Len(st), c)
    IN  \/ \E k \in ts : st[k] = "failed"
        \/ \A k \in ts : st[k] = "done"

\* variant: the result counts as ready once every chunk was handed out
StarmapReadyEarly(st, par, nxt) == nxt > NumChunks(par, Len(st))

\* the map result is ready only once every chunk has ended
StarmapReady(st, par, nxt) ==
    /\ nxt > NumChunks(par, Len(st))
    /\ \A c \in 1..NumChunks(par, Len(st)) : ChunkFinished(st, par, c)

AnyFailed(st) == \E k \in 1..Len(st) : st[k] = "failed"

\* the write failures a run may meet: none, or one of the files it is to write
FaultSets(tasks, outs) ==
    {{}} \cup {{Str(tasks[k].b0_out)} : k \in 1..Len(tasks)}
         \cup {{HdBetMaskName(outs[k])} : k \in 1..Len(outs)}

NoArgs == HdBetArgs(<<>>, <<>>, FALSE)

\* ------------------------------------------------------------------- Init
Init ==
    /\ infs \in InputTrees
    /\ fs = EmptyTree
    /\ pc = "idle"
    /\ overwrite = FALSE
    /\ parallel = FALSE
    /\ order = <<>>
    /\ b0_tasks = <<>>
    /\ hd_bet_input = <<>>
    /\ hd_bet_output = <<>>
    /\ status = <<>>
    /\ execs = <<>>
    /\ cur = {}
    /\ nextChunk = 1
    /\ hd_calls = 0
    /\ hd_args = NoArgs
    /\ hd_pos = 0
    /\ faulty = {}
    /\ fs0 = EmptyTree
    /\ runs = 0
    /\ prev = [ended |-> "none", overwrite |-> FALSE, masks |-> FALSE, changed |-> FALSE]
    /\ gap = FALSE

\* ---------------------------------------------------------------- actions
\* the state the planning loop leaves for the flags, traversal order and write
\* failures of a run
Planned(ow, par, ord, flt) ==
    /\ overwrite' = ow
    /\ parallel' = par
    /\ order' = ord
    /\ b0_tasks' = PlanB0(fs, ow, ord)
    /\ hd_bet_input' = PlanHdBetInput(fs, ow, ord)
    /\ hd_bet_output' = PlanHdBetOutput(fs, ow, ord)
    /\ status' = [k \in 1..Len(b0_tasks') |-> "pending"]
    /\ execs' = [k \in 1..Len(b0_tasks') |-> 0]
    /\ cur' = {}
    /\ nextChunk' = 1
    /\ hd_calls' = 0
    /\ hd_args' = NoArgs
    /\ hd_pos' = 0
    /\ faulty' = flt
    /\ fs0' = fs
    /\ runs' = runs + 1
    /\ prev' = [prev EXCEPT !.changed = gap]
    /\ gap' = FALSE
    /\ pc' = "b0"
    /\ UNCHANGED <<infs, fs>>

\* gen_masks is invoked: discovery and the planning loop (lines 60-83)
GenMasksPlan ==
    /\ pc = "idle"
    /\ runs < MaxRuns
    /\ \E ow \in BOOLEAN, par \in BOOLEAN :
         \E ord \in Orders(FindAllCases(infs, inputs)) :
           \E flt \in FaultSets(PlanB0(fs, ow, ord), PlanHdBetOutput(fs, ow, ord)) :
             Planned(ow, par, ord, flt)

\* the chunks still held once the task statuses are st
Held(chunks, st, par) == {c \in chunks : ~ChunkFinished(st, par, c)}

\* a process enters gen_b0_mean for the next task of chunk c, which it holds or
\* takes from the head of the queue, and loads the inputs (lines 33-37); a load
\* error raises
Begin(c) ==
    /\ pc = "b0"
    /\ \/ /\ c \in cur
          /\ \A k \in ChunkTasks(parallel, Len(status), c) : status[k] # "running"
       \/ /\ c = nextChunk
          /\ c <= NumChunks(parallel, Len(status))
          /\ Cardinality(cur) < Executors(parallel)
    /\ LET ts == {k \in ChunkTasks(parallel, Len(status), c) : status[k] = "pending"}
           k == CHOOSE x \in ts : \A y \in ts : x <= y
           ok == CanLoad(infs, b0_tasks[k])
       IN  /\ execs' = [execs EXCEPT ![k] = @ + 1]
           /\ status' = [status EXCEPT ![k] = IF ok THEN "running" ELSE "failed"]
           /\ cur' = Held(cur \cup {c}, status', parallel)
           /\ nextChunk' = IF c \in cur THEN nextChunk ELSE nextChunk + 1
    /\ UNCHANGED <<infs, fs, pc, overwrite, parallel, order, b0_tasks, hd_bet_input,
                   hd_bet_output, hd_calls, hd_args, hd_pos, faulty, fs0, runs, prev, gap>>

\* the process holding chunk c writes the mean volume (lines 39-42); a write
\* error raises
Finish(c) ==
    /\ pc = "b0"
    /\ c \in cur
    /\ \E k \in ChunkTasks(parallel, Len(status), c) :
        /\ status[k] = "running"
        /\ LET ok == Str(b0_tasks[k].b0_out) \notin faulty
           IN  /\ fs' = Saved(fs, faulty, b0_tasks[k])
               /\ status' = [status EXCEPT ![k] = IF ok THEN "done" ELSE "failed"]
               /\ cur' = Held(cur, status', parallel)
    /\ UNCHANGED <<infs, pc, overwrite, parallel, order, b0_tasks, hd_bet_input,
                   hd_bet_output, execs, nextChunk, hd_calls, hd_args, hd_pos, faulty, fs0,
                   runs, prev, gap>>

\* the error of a task leaves gen_masks: the sequential loop ended with the task
\* that raised (line 92), and pool.starmap re-raises the first error once every
\* chunk has ended (line 88)
StarmapRaise ==
    /\ pc = "b0"
    /\ StarmapReady(status, parallel, nextChunk)
    /\ AnyFailed(status)
    /\ pc' = "aborted"
    /\ UNCHANGED <<infs, fs, overwrite, parallel, order, b0_tasks, hd_bet_input,
                   hd_bet_output, status, execs, cur, nextChunk, hd_calls, hd_args,
                   hd_pos, faulty, fs0, runs, prev, gap>>

\* phase 1 returned and the pool, if any, is gone: HD_BET.run.run_hd_bet is
\* called (line 100)
HdBetInvoke ==
    /\ pc = "b0"
    /\ StarmapReady(status, parallel, nextChunk)
    /\ ~AnyFailed(status)
    /\ pc' = "hd_bet"
    /\ hd_calls' = hd_calls + 1
    /\ hd_args' = HdBetArgs(hd_bet_input, hd_bet_output, overwrite)
    /\ hd_pos' = 0
    /\ UNCHANGED <<infs, fs, overwrite, parallel, order, b0_tasks, hd_bet_input,
                   hd_bet_output, status, execs, cur, nextChunk, faulty, fs0, runs,
                   prev, gap>>

\* the model handles its next pair: it reads the b0 volume and writes the mask
HdBetStep ==
    /\ pc = "hd_bet"
    /\ hd_pos < Len(hd_args.input)
    /\ LET in == hd_args.input[hd_pos + 1]
           target == HdBetMaskName(hd_args.output[hd_pos + 1])
           readable == in \in DOMAIN fs /\ fs[in].kind = "b0"
       IN  /\ fs' = IF ~readable THEN fs
                    ELSE IF target \in faulty THEN Write(fs, target, Partial)
                    ELSE Write(fs, target, MaskContent(in))
           /\ pc' = IF readable /\ target \notin faulty THEN "hd_bet" ELSE "aborted"
           /\ hd_pos' = IF readable /\ target \notin faulty THEN hd_pos + 1 ELSE hd_pos
    /\ UNCHANGED <<infs, overwrite, parallel, order, b0_tasks, hd_bet_input, hd_bet_output,
                   status, execs, cur, nextChunk, hd_calls, hd_args, faulty, fs0, runs,
                   prev, gap>>

\* run_hd_bet returns and gen_masks ends
HdBetReturn ==
    /\ pc = "hd_bet"
    /\ hd_pos = Len(hd_args.input)
    /\ pc' = "done"
    /\ UNCHANGED <<infs, fs, overwrite, parallel, order, b0_tasks, hd_bet_input,
                   hd_bet_output, status, execs, cur, nextChunk, hd_calls, hd_args,
                   hd_pos, faulty, fs0, runs, prev, gap>>

\* whether every file the model was to write is the _dwi_mask.nii.gz of a case
WroteDwiMasks(args) ==
    \A k \in 1..Len(args.output) :
        EndsWith(HdBetMaskName(args.output[k]), DWI \o MASK_NII_GZ)

\* gen_masks returns, or the error leaves it: the lists go out of scope
GenMasksExit ==
    /\ pc \in {"done", "aborted"}
    /\ pc' = "idle"
    /\ prev' = [ended |-> pc, overwrite |-> overwrite, masks |-> WroteDwiMasks(hd_args),
                 changed |-> FALSE]
    /\ overwrite' = FALSE
    /\ parallel' = FALSE
    /\ order' = <<>>
    /\ b0_tasks' = <<>>
    /\ hd_bet_input' = <<>>
    /\ hd_bet_output' = <<>>
    /\ status' = <<>>
    /\ execs' = <<>>
    /\ cur' = {}
    /\ nextChunk' = 1
    /\ hd_calls' = 0
    /\ hd_args' = NoArgs
    /\ hd_pos' = 0
    /\ faulty' = {}
    /\ fs0' = fs
    /\ UNCHANGED <<infs, fs, runs, gap>>

\* between two runs somebody removes one file of the output tree
ExternalDelete(path) ==
    /\ pc = "idle"
    /\ runs < MaxRuns
    /\ ~gap
    /\ path \in DOMAIN fs
    /\ fs' = Remove(fs, path)
    /\ fs0' = fs'
    /\ gap' = TRUE
    /\ UNCHANGED <<infs, pc, overwrite, parallel, order, b0_tasks, hd_bet_input,
                   hd_bet_output, status, execs, cur, nextChunk, hd_calls, hd_args,
                   hd_pos, faulty, runs, prev>>

Next ==
    \/ GenMasksPlan
    \/ \E c \in cur \cup {nextChunk} : Begin(c)
    \/ \E c \in cur : Finish(c)
    \/ StarmapRaise
    \/ HdBetInvoke
    \/ HdBetStep
    \/ HdBetReturn
    \/ GenMasksExit
    \/ \E path \in DOMAIN fs : ExternalDelete(path)

Spec == Init /\ [][Next]_vars

\* ================================================================= claims
Ended == pc \in {"done", "aborted"}
Cases == FindAllCases(infs, inputs)
Range(q) == {q[k] : k \in 1..Len(q)}
Complete(tree, path, kind) == path \in DOMAIN tree /\ tree[path].kind = kind

\* C1: in every run, parallel or not, run_hd_bet is not invoked until every
\* planned b0-mean task has completed: once the model call has started, no
\* planned task is pending or running and no process holds a chunk.
C1_PhaseOrder ==
    (hd_calls > 0 \/ pc \in {"hd_bet", "done"}) =>
        /\ \A k \in 1..Len(status) : status[k] = "done"
        /\ cur = {}

C1_Witness == pc = "hd_bet" /\ parallel /\ Len(b0_tasks) >= 2

\* C2: after a run with overwrite unset that completed, in which the model was
\* to write a _dwi_mask.nii.gz file for every pair it was given, a second run
\* with overwrite unset and no change of the output tree in between plans no
\* b0-mean task and passes empty lists to the model.
C2_Idempotent ==
    ( /\ pc # "idle"
      /\ prev.ended = "done" /\ ~prev.overwrite /\ prev.masks /\ ~prev.changed
      /\ ~overwrite ) =>
        /\ b0_tasks = <<>>
        /\ hd_bet_input = <<>>
        /\ hd_bet_output = <<>>
        /\ hd_calls = 1 => hd_args.input = <<>> /\ hd_args.output = <<>>

C2_Witness ==
    /\ pc = "done" /\ ~overwrite /\ order # <<>>
    /\ prev.ended = "done" /\ ~prev.overwrite /\ prev.masks /\ ~prev.changed
    /\ \E c \in Cases : Complete(fs, Str(B0Out(c)), "b0") /\ Complete(fs, Str(MaskOutReal(c)), "mask")

\* C3: with overwrite set, whatever the output tree holds, the b0-mean task
\* list and the two model lists each hold exactly one entry per discovered
\* case: the k-th entry of each is that of the k-th case found.
C3_Overwrite ==
    (pc # "idle" /\ overwrite) =>
        /\ Range(order) = Cases
        /\ Len(order) = Cardinality(Cases)
        /\ Len(b0_tasks) = Len(order)
        /\ Len(hd_bet_input) = Len(order)
        /\ Len(hd_bet_output) = Len(order)
        /\ \A k \in 1..Len(order) :
            /\ b0_tasks[k] = B0Task(order[k])
            /\ hd_bet_input[k] = Str(B0Out(order[k]))
            /\ hd_bet_output[k] = Str(MaskOut(order[k]))

C3_Witness ==
    /\ pc = "b0" /\ overwrite /\ order # <<>>
    /\ \E c \in Cases : Exists(fs0, B0Out(c)) /\ Exists(fs0, MaskOutReal(c))

FoundAs(base) == CHOOSE f \in RGlob(infs, inputs) : CaseBase(f) = base

\* <rel> of a found file <inputs>/<rel>_dwi.nii.gz: its name without _dwi.nii.gz
RelName(f) == SubSeq(f.name, 1, Len(f.name) - Len(DWI_NII_GZ))

\* C5: for every file <inputs>/<rel>_dwi.nii.gz found, whatever characters
\* <rel> contains, the planned paths are dwi = that file, bval and bvec =
\* <inputs>/<rel>_dwi.bval and .bvec, b0 output = <outputs>/<rel>_dwi.b0.nii.gz,
\* nominal model output = <outputs>/<rel>_dwi.nii.gz and tested mask =
\* <outputs>/<rel>_dwi_mask.nii.gz, in the same relative directory.
C5_Naming ==
    \A k \in 1..Len(order) :
        LET f == FoundAs(order[k])
            rel == RelName(f)
            outdir == outputs \o SubSeq(f.parent, Len(inputs) + 1, Len(f.parent))
        IN  /\ DwiOf(order[k]) = f
            /\ BvalOf(order[k]) = File(f.parent, rel, DWI \o BVAL)
            /\ BvecOf(order[k]) = File(f.parent, rel, DWI \o BVEC)
            /\ B0Out(order[k]) = File(outdir, rel, DWI \o B0_NII_GZ)
            /\ MaskOut(order[k]) = File(outdir, rel, DWI_NII_GZ)
            /\ MaskOutReal(order[k]) = File(outdir, rel, DWI \o MASK_NII_GZ)

\* C6: when the model is invoked and while it runs, every path of its input
\* list names a file of the output tree, one that was there at planning time
\* or that a b0-mean task of this run wrote.
C6_B0Exists ==
    pc = "hd_bet" =>
        \A k \in 1..Len(hd_args.input) :
            /\ hd_args.input[k] \in DOMAIN fs
            /\ \/ hd_args.input[k] \in DOMAIN fs0
               \/ \E j \in 1..Len(b0_tasks) :
                    status[j] = "done" /\ Str(b0_tasks[j].b0_out) = hd_args.input[k]

C6_Witness ==
    /\ pc = "hd_bet" /\ hd_pos = 0 /\ Len(hd_args.input) >= 1
    /\ \E k \in 1..Len(hd_args.input) :
        /\ hd_args.input[k] \in DOMAIN fs0
        /\ \A j \in 1..Len(b0_tasks) : Str(b0_tasks[j].b0_out) # hd_args.input[k]

\* C7: any two distinct b0-mean tasks planned in one run have distinct b0
\* output paths and distinct dwi, bval and bvec input paths, so that no two
\* processes ever write the same output file.
C7_DistinctPaths ==
    \A j, k \in 1..Len(b0_tasks) :
        j # k =>
            /\ b0_tasks[j].b0_out # b0_tasks[k].b0_out
            /\ b0_tasks[j].dwi # b0_tasks[k].dwi
            /\ b0_tasks[j].bval # b0_tasks[k].bval
            /\ b0_tasks[j].bvec # b0_tasks[k].bvec

\* C8: a failure of a b0-mean task aborts the run: once a task has raised, in
\* either mode, the model is never invoked in that run; in sequential mode no
\* task after the failing one is started; and the outputs the tasks of the run
\* wrote stay in the output tree.
C8_FailureAborts ==
    /\ AnyFailed(status) => hd_calls = 0 /\ pc \in {"b0", "aborted"}
    /\ ~parallel =>
        \A j, k \in 1..Len(status) :
            (j < k /\ status[j] = "failed") => (status[k] = "pending" /\ execs[k] = 0)
    /\ AnyFailed(status) =>
        \A k \in 1..Len(status) :
            status[k] = "done" => Complete(fs, Str(b0_tasks[k].b0_out), "b0")

C8_Witness ==
    /\ pc = "aborted" /\ ~parallel
    /\ \E j, k, l \in 1..Len(status) :
        /\ j < k /\ k < l
        /\ status[j] = "done" /\ status[k] = "failed" /\ status[l] = "pending"

\* C9: after a run aborted by a failure at any point of the b0-mean phase or
\* of the model call, a following run with overwrite unset plans a b0-mean task
\* exactly for the cases whose b0 output the aborted run left incomplete and a
\* mask pair exactly for the cases whose _dwi_mask.nii.gz it left incomplete.
C9_Resume ==
    (pc # "idle" /\ prev.ended = "aborted" /\ ~prev.changed /\ ~overwrite) =>
        \A c \in Cases :
            /\ B0Task(c) \in Range(b0_tasks) <=> ~Complete(fs0, Str(B0Out(c)), "b0")
            /\ Str(MaskOut(c)) \in Range(hd_bet_output)
                 <=> ~Complete(fs0, Str(MaskOutReal(c)), "mask")

\* C10: in every run in which no b0-mean task fails, the model is invoked
\* exactly once, with empty lists too, with the overwrite flag of the run and
\* with lists of equal length whose k-th entries are the b0 output and the
\* nominal mask output of one case; by then each planned b0-mean task was
\* executed exactly once.
C10_OneCall ==
    /\ hd_calls <= 1
    /\ (Ended /\ ~AnyFailed(status)) => hd_calls = 1
    /\ hd_calls = 1 =>
        /\ hd_args.overwrite = overwrite
        /\ hd_args.input = hd_bet_input
        /\ hd_args.output = hd_bet_output
        /\ Len(hd_args.input) = Len(hd_args.output)
        /\ \A k \in 1..Len(hd_args.input) :
            \E c \in Cases :
                hd_args.input[k] = Str(B0Out(c)) /\ hd_args.output[k] = Str(MaskOut(c))
        /\ \A k \in 1..Len(b0_tasks) : execs[k] = 1 /\ status[k] = "done"

C10_Witness ==
    /\ pc = "done" /\ hd_calls = 1 /\ order # <<>> /\ overwrite
    /\ hd_args.input # <<>> /\ Len(b0_tasks) >= 2
=============================================================================
